---- MODULE Spec2Model ----
(***************************************************************************)
(* Model of uniformers:                                                    *)
(*   - utils/tokenizer.py: Poetry2Tokens, the mapping of poetry labels to  *)
(*     the tokenizer's additional special tokens and their ids;            *)
(*   - trainers/poetry_classification.py: PoetryClassificationTrainer's    *)
(*     train() (checkpoint-resume decision) and test() (per-language       *)
(*     evaluation).                                                        *)
(***************************************************************************)
EXTENDS Integers, Sequences, FiniteSets, TLC

\* ------------------------------------------------------------------ bounds
\* Longest label sequence of one family (alliteration levels, meters, rhymes).
MaxLabels == 2
\* Size of the reserved-token universe; the tokenizer's list is at most this long.
MaxTokens == 4

VARIABLES
    tokenizer,              \* the tokenizer object handed to Poetry2Tokens
    alliteration_levels,    \* constructor argument
    meters,                 \* constructor argument
    rhyme_schemes,          \* constructor argument
    self,                   \* the Poetry2Tokens object (or the raised error)
    read,                   \* what each mapping property returned when last read
    args,                   \* the trainer's GlobalBatchTrainingArguments (self.args)
    fs,                     \* the directories and files on disk
    train_call,             \* the last call train() made to Trainer.train
    test_dataset,           \* the trainer's held test split (self.test_dataset)
    test_calls,             \* the calls of test(): its argument and the split it found
    framework_calls         \* the calls test() made to evaluate, log_metrics, save_metrics

p2tVars == <<tokenizer, alliteration_levels, meters, rhyme_schemes, self, read>>

trainVars == <<args, fs, train_call>>

testVars == <<test_dataset, test_calls, framework_calls>>

vars == <<p2tVars, trainVars, testVars>>

\* ----------------------------------------------------------------- helpers
Range(s) == {s[i] : i \in 1..Len(s)}

\* The reserved tokens ("<extra_id_k>"-like placeholders) are named by numbers.
Tokens == 1..MaxTokens

\* The reserved-token lists considered: n pairwise distinct tokens, running
\* through the universe from any starting token (wrapping at its end), so that
\* a token's name is in general not its position in the list.
TokenLists ==
    {[i \in 1..n |-> ((first + i - 2) % MaxTokens) + 1] : first \in Tokens, n \in 0..MaxTokens}

\* The labels of one family: n labels, pairwise distinct, distinct across families.
Labels(family, n) == [i \in 1..n |-> <<family, i>>]

\* tokenizer.convert_token_to_id: each token has its own id in the vocabulary;
\* the id is not the token's position in the reserved list.
convert_token_to_id(token) == 2 * MaxTokens - token + 1

\* Python's list[idx]: a negative idx counts from the end of the list.
PyIndex(n, idx) == IF idx < 0 THEN idx + n ELSE idx

\* list[idx] raises IndexError unless the normalised index is inside the list.
InRange(n, idx) == PyIndex(n, idx) >= 0 /\ PyIndex(n, idx) < n

\* list[idx] for a list held as a 1-based sequence.
GetItem(list, idx) == list[PyIndex(Len(list), idx) + 1]

\* enumerate(labels, offset): the pairs (offset + k, labels[k]), k = 0, 1, ...
Enumerate(labels, offset) == [k \in 1..Len(labels) |-> <<offset + k - 1, labels[k]>>]

\* {level: list[idx] for idx, level in pairs}: a dict, or IndexError when one
\* lookup is outside the list.  A repeated key keeps its last value.
DictComp(pairs, list) ==
    IF \A k \in 1..Len(pairs) : InRange(Len(list), pairs[k][1])
    THEN [kind |-> "dict",
          d |-> [level \in {pairs[k][2] : k \in 1..Len(pairs)} |->
                   LET last == CHOOSE k \in 1..Len(pairs) :
                                 /\ pairs[k][2] = level
                                 /\ \A m \in 1..Len(pairs) : pairs[m][2] = level => m <= k
                   IN GetItem(list, pairs[last][1])]]
    ELSE [kind |-> "IndexError"]

\* ------------------------------------------------------------ Poetry2Tokens
PropNames == {"alliterations2tokens", "alliterations2ids", "meters2tokens",
              "meters2ids", "rhymes2tokens", "rhymes2ids"}

Unread == [kind |-> "unread"]

NoObject == [state |-> "none"]

TokenizerInit(isByGPT5, tokens) ==
    [isByGPT5 |-> isByGPT5,
     add_bos_token |-> FALSE,
     add_eos_token |-> FALSE,
     bos_token |-> "<bos>",
     eos_token |-> "<eos>",
     additional_special_tokens |-> tokens]

P2TInit ==
    /\ \E isByGPT5 \in BOOLEAN, tokens \in TokenLists :
         tokenizer = TokenizerInit(isByGPT5, tokens)
    /\ \E n \in 0..MaxLabels : alliteration_levels = Labels("alliteration", n)
    /\ \E n \in 0..MaxLabels : meters = Labels("meter", n)
    /\ \E n \in 0..MaxLabels : rhyme_schemes = Labels("rhyme", n)
    /\ self = NoObject
    /\ read = [p \in PropNames |-> Unread]

ExceedsVocabulary_inclusive ==
    Len(alliteration_levels) + Len(meters) + Len(rhyme_schemes)
        >= Len(tokenizer.additional_special_tokens)

\* The capacity check of __init__.
ExceedsVocabulary ==
    Len(alliteration_levels) + Len(meters) + Len(rhyme_schemes)
        > Len(tokenizer.additional_special_tokens)

\* The tokenizer after the ByGPT5Tokenizer branch of __init__.
ConfiguredTokenizer ==
    IF tokenizer.isByGPT5
    THEN [tokenizer EXCEPT !.add_bos_token = TRUE,
                           !.add_eos_token = TRUE,
                           !.bos_token = tokenizer.eos_token]
    ELSE tokenizer

\* Poetry2Tokens.__init__
Construct ==
    /\ self.state = "none"
    /\ IF ExceedsVocabulary
       THEN /\ self' = [state |-> "ValueError"]
            /\ UNCHANGED tokenizer
       ELSE /\ tokenizer' = ConfiguredTokenizer
            /\ self' = [state |-> "ok",
                        _alliteration_levels |-> alliteration_levels,
                        _meters |-> meters,
                        _rhyme_schemes |-> rhyme_schemes,
                        _additional_special_ids |->
                            [i \in 1..Len(tokenizer.additional_special_tokens) |->
                               convert_token_to_id(tokenizer.additional_special_tokens[i])]]
    /\ UNCHANGED <<alliteration_levels, meters, rhyme_schemes, read>>
    /\ UNCHANGED <<trainVars, testVars>>

\* The (index, label) pairs each property enumerates.
alliterations_enumerate == Enumerate(self._alliteration_levels, 0)

meters_offset_fixed == Len(self._alliteration_levels)

meters_offset == Len(self._alliteration_levels) - 1

meters_enumerate == Enumerate(self._meters, meters_offset)

rhymes_offset_overlap == Len(self._alliteration_levels) + Len(self._meters) - 2

rhymes_offset == Len(self._alliteration_levels) + Len(self._meters) - 1

rhymes_enumerate == Enumerate(self._rhyme_schemes, rhymes_offset)

alliterations2tokens == DictComp(alliterations_enumerate, tokenizer.additional_special_tokens)

alliterations2ids == DictComp(alliterations_enumerate, self._additional_special_ids)

meters2tokens == DictComp(meters_enumerate, tokenizer.additional_special_tokens)

meters2ids == DictComp(meters_enumerate, self._additional_special_ids)

rhymes2tokens == DictComp(rhymes_enumerate, tokenizer.additional_special_tokens)

rhymes2ids == DictComp(rhymes_enumerate, self._additional_special_ids)

\* Reading a property of a constructed object.
Get(prop, value) ==
    /\ self.state = "ok"
    /\ read' = [read EXCEPT ![prop] = value]
    /\ UNCHANGED <<tokenizer, alliteration_levels, meters, rhyme_schemes, self>>
    /\ UNCHANGED <<trainVars, testVars>>

GetAlliterations2Tokens == Get("alliterations2tokens", alliterations2tokens)

GetAlliterations2Ids == Get("alliterations2ids", alliterations2ids)

GetMeters2Tokens == Get("meters2tokens", meters2tokens)

GetMeters2Ids == Get("meters2ids", meters2ids)

GetRhymes2Tokens == Get("rhymes2tokens", rhymes2tokens)

GetRhymes2Ids == Get("rhymes2ids", rhymes2ids)

\* The tokenizer's owner replaces its additional special tokens after the
\* mapper was built (tokenizer.add_special_tokens); what was read before is
\* stale.  The model follows the object up to the first such change.
SetAdditionalSpecialTokens ==
    /\ self.state = "ok"
    /\ self._additional_special_ids =
           [i \in 1..Len(tokenizer.additional_special_tokens) |->
              convert_token_to_id(tokenizer.additional_special_tokens[i])]
    /\ \E tokens \in TokenLists :
         /\ tokens # tokenizer.additional_special_tokens
         /\ tokenizer' = [tokenizer EXCEPT !.additional_special_tokens = tokens]
    /\ read' = [p \in PropNames |-> Unread]
    /\ UNCHANGED <<alliteration_levels, meters, rhyme_schemes, self>>
    /\ UNCHANGED <<trainVars, testVars>>

\* ------------------------------------------- PoetryClassificationTrainer.train
\* Most trial numbers of a hyperparameter search, and most checkpoint steps.
MaxTrial == 1
MaxCheckpoint == 2

None == "<None>"

\* os.path.join
join(a, b) == a \o "/" \o b

OutputDir == "out"

RunDir(number) == join(OutputDir, "run-" \o ToString(number))

CheckpointDir(folder, step) == join(folder, "checkpoint-" \o ToString(step))

ConfigFile(folder) == join(folder, "config.json")

TrainDirs == {OutputDir} \cup {RunDir(n) : n \in 0..MaxTrial - 1}

\* A file system: the existing directories and files; a path exists only
\* inside an existing directory.
FileSystems ==
    {[dirs |-> runs \cup {CheckpointDir(c[1], c[2]) : c \in cps}, files |-> cfg] :
        runs \in {r \in SUBSET TrainDirs : r # {} => OutputDir \in r},
        cps \in SUBSET (TrainDirs \X (1..MaxCheckpoint)),
        cfg \in SUBSET {ConfigFile(d) : d \in TrainDirs}}

ValidFileSystem(f) ==
    /\ \A d \in TrainDirs, k \in 1..MaxCheckpoint :
         CheckpointDir(d, k) \in f.dirs => d \in f.dirs
    /\ \A d \in TrainDirs : ConfigFile(d) \in f.files => d \in f.dirs

isdir(path) == path \in fs.dirs

isfile(path) == path \in fs.files

\* The steps of the checkpoint-<step> directories inside folder.
CheckpointSteps(folder) == {k \in 1..MaxCheckpoint : isdir(CheckpointDir(folder, k))}

\* transformers.trainer_utils.get_last_checkpoint: the checkpoint-<step>
\* directory of folder with the largest step, None when there is none.
get_last_checkpoint(folder) ==
    IF CheckpointSteps(folder) = {}
    THEN None
    ELSE CheckpointDir(folder, CHOOSE k \in CheckpointSteps(folder) :
                                  \A m \in CheckpointSteps(folder) : m <= k)

\* kwargs of train(): with or without a hyperparameter-search trial.
TrainKwargs ==
    {[has_trial |-> FALSE]} \cup {[has_trial |-> TRUE, number |-> n] : n \in 0..MaxTrial - 1}

\* The output directory train() looks at.
TrainOutputDir(kwargs) == IF kwargs.has_trial THEN RunDir(kwargs.number) ELSE args.output_dir

ResumeBranch_ignoring_overwrite(output_dir) == isdir(output_dir)

\* The condition of train()'s if: look for earlier work in output_dir.
ResumeBranch(output_dir) == ~args.overwrite_output_dir /\ isdir(output_dir)

LastCheckpoint_config_only(output_dir) ==
    IF ResumeBranch(output_dir) /\ isfile(ConfigFile(output_dir)) THEN output_dir ELSE None

\* last_checkpoint as train() leaves it.
LastCheckpoint(output_dir) ==
    IF ResumeBranch(output_dir)
    THEN IF isfile(ConfigFile(output_dir))
         THEN output_dir
         ELSE get_last_checkpoint(output_dir)
    ELSE None

\* The message train() logs.
TrainLog(output_dir) ==
    IF ResumeBranch(output_dir)
    THEN IF isfile(ConfigFile(output_dir))
         THEN "Skipping training."
         ELSE IF get_last_checkpoint(output_dir) # None
              THEN "Checkpoint detected, resuming training"
              ELSE ""
    ELSE ""

NoTrainCall == [called |-> FALSE]

\* train(**kwargs): it always ends in Trainer.train(resume_from_checkpoint=...),
\* the framework's training loop, which is outside the repository.
Train(kwargs) ==
    /\ train_call' = [called |-> TRUE,
                      kwargs |-> kwargs,
                      output_dir |-> TrainOutputDir(kwargs),
                      logged |-> TrainLog(TrainOutputDir(kwargs)),
                      resume_from_checkpoint |-> LastCheckpoint(TrainOutputDir(kwargs))]
    /\ UNCHANGED <<args, fs>>
    /\ UNCHANGED <<p2tVars, testVars>>

\* -------------------------------------------- PoetryClassificationTrainer.test
\* Most examples of the test split, and most calls of test().
MaxExamples == 3
MaxTestCalls == 2

Languages == {"de", "en", "fr"}

\* The test splits considered: rows with a language field.
Datasets ==
    UNION {[1..n -> [row : 1..MaxExamples, language : Languages]] : n \in 0..MaxExamples}

ValidDataset(ds) == \A i \in 1..Len(ds) : ds[i].row = i

\* Dataset.filter(lambda example: example["language"] == lang): a new dataset,
\* the receiver is left as it is.
FilterLanguage(ds, lang) == SelectSeq(ds, LAMBDA example : example.language = lang)

\* Trainer.evaluate: the metrics of a dataset, computed by the framework; the
\* model keeps them as a value determined by the dataset evaluated.
Evaluate(ds) == [eval_dataset |-> ds, eval_samples |-> Len(ds)]

LogCall(name, metrics) == [op |-> "log_metrics", name |-> name, metrics |-> metrics]

SaveCall(name, metrics) == [op |-> "save_metrics", name |-> name, metrics |-> metrics]

\* The body of test()'s loop for one slice.
ReportSlice(name, metrics, save_metrics) ==
    <<LogCall(name, metrics)>> \o (IF save_metrics THEN <<SaveCall(name, metrics)>> ELSE <<>>)

TestNames_swapped == <<"test", "test-en", "test-de">>

\* The names test() zips with the metrics.
TestNames == <<"test", "test-de", "test-en">>

\* The metrics test() zips with the names.
TestMetrics(ds) ==
    <<Evaluate(ds), Evaluate(FilterLanguage(ds, "de")), Evaluate(FilterLanguage(ds, "en"))>>

\* test(save_metrics)
Test(save_metrics) ==
    /\ Len(test_calls) < MaxTestCalls
    /\ LET ds == test_dataset
           metrics == TestMetrics(ds)
       IN /\ framework_calls' = framework_calls
                 \o <<[op |-> "evaluate", name |-> "", metrics |-> metrics[1]],
                      [op |-> "evaluate", name |-> "", metrics |-> metrics[2]],
                      [op |-> "evaluate", name |-> "", metrics |-> metrics[3]]>>
                 \o ReportSlice(TestNames[1], metrics[1], save_metrics)
                 \o ReportSlice(TestNames[2], metrics[2], save_metrics)
                 \o ReportSlice(TestNames[3], metrics[3], save_metrics)
          /\ test_calls' = Append(test_calls,
                                  [save_metrics |-> save_metrics,
                                   dataset |-> ds,
                                   first_call |-> Len(framework_calls) + 1])
    /\ UNCHANGED test_dataset
    /\ UNCHANGED <<p2tVars, trainVars>>

\* ------------------------------------------------------------ specifications
P2TIdle ==
    /\ tokenizer = TokenizerInit(FALSE, <<>>)
    /\ alliteration_levels = <<>>
    /\ meters = <<>>
    /\ rhyme_schemes = <<>>
    /\ self = NoObject
    /\ read = [p \in PropNames |-> Unread]

TrainIdle ==
    /\ args = [output_dir |-> OutputDir, overwrite_output_dir |-> FALSE]
    /\ fs = [dirs |-> {}, files |-> {}]
    /\ train_call = NoTrainCall

TestIdle ==
    /\ test_dataset = <<>>
    /\ test_calls = <<>>
    /\ framework_calls = <<>>

TrainInit ==
    /\ \E overwrite \in BOOLEAN :
         args = [output_dir |-> OutputDir, overwrite_output_dir |-> overwrite]
    /\ \E f \in FileSystems : ValidFileSystem(f) /\ fs = f
    /\ train_call = NoTrainCall

TestInit ==
    /\ \E ds \in Datasets : ValidDataset(ds) /\ test_dataset = ds
    /\ test_calls = <<>>
    /\ framework_calls = <<>>

\* Poetry2Tokens: construction and the six mapping properties.
Init == P2TInit /\ TrainIdle /\ TestIdle

Next ==
    \/ Construct
    \/ GetAlliterations2Tokens
    \/ GetAlliterations2Ids
    \/ GetMeters2Tokens
    \/ GetMeters2Ids
    \/ GetRhymes2Tokens
    \/ GetRhymes2Ids

Spec == Init /\ [][Next]_vars

\* Poetry2Tokens with a tokenizer whose special tokens change after construction.
TokenizerNext == Next \/ SetAdditionalSpecialTokens

TokenizerSpec == Init /\ [][TokenizerNext]_vars

\* PoetryClassificationTrainer.train over the states of the output directory.
TrainerInit == P2TIdle /\ TrainInit /\ TestIdle

TrainerNext == \E kwargs \in TrainKwargs : Train(kwargs)

TrainSpec == TrainerInit /\ [][TrainerNext]_vars

\* PoetryClassificationTrainer.test over the test splits.
TesterInit == P2TIdle /\ TrainIdle /\ TestInit

TesterNext == \E save_metrics \in BOOLEAN : Test(save_metrics)

TestSpec == TesterInit /\ [][TesterNext]_vars

\* ------------------------------------------------------------------- claims
\* 0-based position of x in a list of pairwise distinct entries.
IndexOf(list, x) == CHOOSE i \in 0..Len(list) - 1 : list[i + 1] = x

LabelCount == Len(alliteration_levels) + Len(meters) + Len(rhyme_schemes)

ReservedTokens == tokenizer.additional_special_tokens

\* The object exists and all six properties were read as dicts.
AllRead == self.state = "ok" /\ \A p \in PropNames : read[p].kind = "dict"

\* The (label, value) pairs of a dict that was read.
Items(prop) == {<<level, read[prop].d[level]>> : level \in DOMAIN read[prop].d}

TokenItems == Items("alliterations2tokens") \cup Items("meters2tokens") \cup Items("rhymes2tokens")

IdItems == Items("alliterations2ids") \cup Items("meters2ids") \cup Items("rhymes2ids")

Injective(items) == \A x, y \in items : x[2] = y[2] => x[1] = y[1]

\* C1: construction raises ValueError exactly when the three label sequences
\* together are longer than the tokenizer's additional special tokens; with
\* at most as many labels as tokens (equality included) it succeeds.
C1_FailsExactlyWhenLabelsExceedTokens ==
    self.state # "none" =>
        /\ self.state \in {"ok", "ValueError"}
        /\ self.state = "ValueError" <=> LabelCount > Len(ReservedTokens)
        /\ self.state = "ok" <=> LabelCount <= Len(ReservedTokens)

C1_Witness_EqualCountsSucceed ==
    self.state = "ok" /\ LabelCount = Len(ReservedTokens) /\ LabelCount > 0

\* C2: with disjoint duplicate-free label sequences and enough distinct
\* reserved tokens, no two distinct labels of the three families share a
\* reserved token, and no two share an id.
C2_EveryLabelHasItsOwnTokenAndId ==
    AllRead => Injective(TokenItems) /\ Injective(IdItems)

Denoted(idx) == IF idx = -1 THEN Len(ReservedTokens) - 1 ELSE idx

AllFamiliesNonEmpty ==
    Len(self._alliteration_levels) > 0 /\ Len(self._meters) > 0 /\ Len(self._rhyme_schemes) > 0

\* The 0-based positions, in list, of the values of the (label, value) pairs.
Positions(list, items) == {IndexOf(list, x[2]) : x \in items}

\* C4 as stated: with non-empty families, the first meter shares the index of
\* the last alliteration level, the first rhyme scheme shares the index of the
\* last meter, and the indices used have no gaps.
C4_EachBlockStartReusesPreviousLast ==
    (AllRead /\ AllFamiliesNonEmpty) =>
        LET A == self._alliteration_levels
            M == self._meters
            R == self._rhyme_schemes
        IN /\ read["meters2tokens"].d[M[1]] = read["alliterations2tokens"].d[A[Len(A)]]
           /\ read["rhymes2tokens"].d[R[1]] = read["meters2tokens"].d[M[Len(M)]]
           /\ \E top \in 0..Len(ReservedTokens) :
                Positions(ReservedTokens, TokenItems) = 0..top

\* C4 amended: with non-empty families, the first meter shares the index of the
\* last alliteration level; the first rhyme scheme takes the index right after
\* the last meter's (these two blocks do not overlap); the indices used are
\* exactly 0 .. |A|+|M|+|R|-2, for the tokens and for the ids.
C4_OnlyMeterBlockOverlaps ==
    (AllRead /\ AllFamiliesNonEmpty) =>
        LET A == self._alliteration_levels
            M == self._meters
            R == self._rhyme_schemes
            ids == self._additional_special_ids
        IN /\ read["meters2tokens"].d[M[1]] = read["alliterations2tokens"].d[A[Len(A)]]
           /\ read["meters2ids"].d[M[1]] = read["alliterations2ids"].d[A[Len(A)]]
           /\ IndexOf(ReservedTokens, read["rhymes2tokens"].d[R[1]])
                  = IndexOf(ReservedTokens, read["meters2tokens"].d[M[Len(M)]]) + 1
           /\ IndexOf(ids, read["rhymes2ids"].d[R[1]])
                  = IndexOf(ids, read["meters2ids"].d[M[Len(M)]]) + 1
           /\ Positions(ReservedTokens, TokenItems) = 0..LabelCount - 2
           /\ Positions(ids, IdItems) = 0..LabelCount - 2

C4_Witness_NonEmptyFamilies ==
    AllRead /\ AllFamiliesNonEmpty /\ Len(self._meters) > 1 /\ Len(ReservedTokens) = LabelCount

\* C9: after a successful construction every index the six properties use lies
\* in 0 .. |A|+|M|+|R|-1, so every label is mapped to one of the first
\* |A|+|M|+|R| reserved tokens and no lookup wraps around to the end.
C9_IndicesWithinLabelCount ==
    /\ self.state = "ok" =>
         \A pairs \in {alliterations_enumerate, meters_enumerate, rhymes_enumerate} :
            \A k \in 1..Len(pairs) : pairs[k][1] \in 0..LabelCount - 1
    /\ AllRead =>
         /\ Positions(ReservedTokens, TokenItems) \subseteq 0..LabelCount - 1
         /\ Positions(self._additional_special_ids, IdItems) \subseteq 0..LabelCount - 1

\* The ids of family's labels are the tokenizer's ids of the family's tokens.
IdsAgree(tokens_prop, ids_prop) ==
    (read[tokens_prop].kind = "dict" /\ read[ids_prop].kind = "dict") =>
        \A level \in DOMAIN read[ids_prop].d :
            read[ids_prop].d[level] = convert_token_to_id(read[tokens_prop].d[level])

\* C10: in every state after construction, also after the tokenizer's
\* additional special tokens were changed, each label's id is the tokenizer's
\* id of the label's token.
C10_IdsAgreeWithTokens ==
    self.state = "ok" =>
        /\ IdsAgree("alliterations2tokens", "alliterations2ids")
        /\ IdsAgree("meters2tokens", "meters2ids")
        /\ IdsAgree("rhymes2tokens", "rhymes2ids")

\* The state of the directory the last train() call looked at.
TrainedDirHasConfig == isfile(ConfigFile(train_call.output_dir))

TrainedDirSteps == CheckpointSteps(train_call.output_dir)

\* C6: without overwrite, with an existing output directory that holds no
\* config.json and at least one checkpoint, train() hands the framework the
\* result of the last-checkpoint lookup for that directory: the directory of
\* the checkpoint with the largest step, never None, never the output
\* directory itself.
C6_ResumesFromLastCheckpoint ==
    (/\ train_call.called
     /\ ~args.overwrite_output_dir
     /\ isdir(train_call.output_dir)
     /\ ~TrainedDirHasConfig
     /\ TrainedDirSteps # {}) =>
        /\ train_call.resume_from_checkpoint = get_last_checkpoint(train_call.output_dir)
        /\ \E k \in TrainedDirSteps :
             /\ \A m \in TrainedDirSteps : m <= k
             /\ train_call.resume_from_checkpoint = CheckpointDir(train_call.output_dir, k)
        /\ train_call.resume_from_checkpoint # None
        /\ train_call.resume_from_checkpoint # train_call.output_dir

C6_Witness_TwoCheckpointsInTrialDir ==
    /\ train_call.called
    /\ train_call.kwargs.has_trial
    /\ ~args.overwrite_output_dir
    /\ isdir(train_call.output_dir)
    /\ ~TrainedDirHasConfig
    /\ Cardinality(TrainedDirSteps) > 1
    /\ isfile(ConfigFile(OutputDir))

\* C7: with overwrite set, or without the output directory, train() hands the
\* framework None as the resume target, whatever config.json or checkpoints
\* are on disk.
C7_FreshRunWhenOverwriteOrNoDirectory ==
    (train_call.called /\ (args.overwrite_output_dir \/ ~isdir(train_call.output_dir))) =>
        train_call.resume_from_checkpoint = None

C7_Witness_OverwriteWithConfigAndCheckpoint ==
    /\ train_call.called
    /\ args.overwrite_output_dir
    /\ isdir(train_call.output_dir)
    /\ TrainedDirHasConfig
    /\ TrainedDirSteps # {}
    /\ train_call.resume_from_checkpoint = None

\* The framework calls of the c-th call of test().
CallsOf(c) ==
    SubSeq(framework_calls,
           test_calls[c].first_call,
           IF c < Len(test_calls) THEN test_calls[c + 1].first_call - 1 ELSE Len(framework_calls))

OfOp(calls, op) == SelectSeq(calls, LAMBDA call : call.op = op)

\* The three slices of a test split with their names, in order.
Slices(ds) ==
    <<[name |-> "test", dataset |-> ds],
      [name |-> "test-de", dataset |-> SelectSeq(ds, LAMBDA example : example.language = "de")],
      [name |-> "test-en", dataset |-> SelectSeq(ds, LAMBDA example : example.language = "en")]>>

\* C8: every call of test() evaluates the whole test split, its "de" examples
\* and its "en" examples, logs the metrics of each under "test", "test-de",
\* "test-en" in this order, saves them exactly when save_metrics is true, and
\* leaves the held test split as it was.
C8_TestReportsThreeSlices ==
    \A c \in 1..Len(test_calls) :
        LET slices == Slices(test_calls[c].dataset)
            evaluated == OfOp(CallsOf(c), "evaluate")
            logged == OfOp(CallsOf(c), "log_metrics")
            saved == OfOp(CallsOf(c), "save_metrics")
        IN /\ Len(evaluated) = Len(slices)
           /\ \A i \in 1..Len(slices) :
                evaluated[i].metrics.eval_dataset = slices[i].dataset
           /\ Len(logged) = Len(slices)
           /\ \A i \in 1..Len(slices) :
                /\ logged[i].name = slices[i].name
                /\ logged[i].metrics.eval_dataset = slices[i].dataset
           /\ IF test_calls[c].save_metrics THEN Len(saved) = Len(slices) ELSE Len(saved) = 0
           /\ \A i \in 1..Len(saved) :
                /\ saved[i].name = slices[i].name
                /\ saved[i].metrics.eval_dataset = slices[i].dataset
           /\ test_dataset = test_calls[c].dataset

C8_Witness_SavedAndUnsavedCalls ==
    /\ Len(test_calls) > 1
    /\ test_calls[1].save_metrics
    /\ ~test_calls[Len(test_calls)].save_metrics
    /\ \E i, j, k \in 1..Len(test_dataset) :
         /\ test_dataset[i].language = "de"
         /\ test_dataset[j].language = "en"
         /\ test_dataset[k].language = "fr"

====
